---- MODULE Spec2Model ----
(***************************************************************************)
(* The view-count synchronisation of src/gemini.js: the App component's    *)
(* React state, its three effects (Firebase initialisation and identity    *)
(* bootstrap, the one increment write of a page view, the standing         *)
(* subscription to the counter document), the sign-out handler, and the    *)
(* two collaborators the effects talk to: the identity provider and the    *)
(* shared counter document, written by every viewing session.              *)
(***************************************************************************)
EXTENDS Integers, Sequences, FiniteSets, TLC

\* ---- bounds ----
NumSessions == 1        \* viewing sessions modelled in full
MaxPeerWrites == 1      \* increment writes of the other viewing sessions
MaxInitCount == 1       \* largest count the document may hold before any session loads
MaxMounts == 2          \* mounts of App within one process (SpecRemount only)

Sessions == 1..NumSessions

NULL == "null"

VARIABLES
    apiKey,            \* [s] firebaseConfig.apiKey is present            (line 8, 56)
    pc,                \* [s] "init" | "mounted" | "unmounted": App's lifecycle
    mounts,            \* [s] times App was mounted in this process
    db,                \* [s] useState(null)                               (line 38)
    auth,              \* [s] useState(null)                               (line 39)
    userId,            \* [s] useState(null)                               (line 40)
    isAuthReady,       \* [s] useState(false)                              (line 41)
    viewCount,         \* [s] useState(0)                                  (line 42)
    authListener,      \* [s] "none" | "pending" | "active": onAuthStateChanged observer
    authUser,          \* [s] the identity provider's current user
    attempt,           \* [s] "none" | "pending" | "resolved" | "rejected": attemptAuth
    writes,            \* [s] setDoc increment writes issued by the process
    inflight,          \* [s] issued writes the store has neither applied nor refused
    acked,             \* [s] issued writes the store has applied
    subOpen,           \* [s] onSnapshot registrations not yet unsubscribed
    subAlive,          \* [s] the registration still receives pushes (no error yet)
    subNext,           \* [s] index in history of the next snapshot to push
    seen,              \* [s] a snapshot has been pushed to this App instance
    peerWrites,        \* increment writes of other sessions the store has applied
    history            \* the successive states of the counter document

vars == <<apiKey, pc, mounts, db, auth, userId, isAuthReady,
          viewCount, authListener, authUser, attempt, writes, inflight, acked,
          subOpen, subAlive, subNext, seen, peerWrites, history>>

react == <<db, auth, userId, isAuthReady, viewCount>>
provider == <<authUser, attempt>>
writer == <<writes, inflight, acked>>
subscription == <<subOpen, subAlive, subNext, seen>>
shared == <<peerWrites, history>>

\* ---- JavaScript values of the count field ----
VInt(n) == [tag |-> "int", n |-> n]
VUndef == [tag |-> "undefined", n |-> 0]      \* the field is absent
VNull == [tag |-> "null", n |-> 0]            \* malformed, falsy
VStr == [tag |-> "string", n |-> 0]           \* malformed, truthy: a non-empty string

\* JavaScript truthiness, as `||` tests it (line 123)
Truthy(v) == \/ v.tag = "int" /\ v.n # 0
             \/ v.tag = "string"

\* ---- the counter document ----
NoDoc == [exists |-> FALSE, count |-> VUndef]
Doc(v) == [exists |-> TRUE, count |-> v]

InitialDocs == {NoDoc} \cup {Doc(VInt(n)) : n \in 0..MaxInitCount}
               \cup {Doc(VUndef), Doc(VNull), Doc(VStr)}

store == history[Len(history)]

\* The document after an increment is stored without the increment
\* transform: the field is overwritten with the operand.
MergeWriteOverwrite(doc, by) == Doc(VInt(by))

\* setDoc(path, { count: increment(by) }, { merge: true }) applied by the
\* store (line 106): one atomic transform; a missing document or a
\* non-numeric field takes the operand as its value.
MergeWrite(doc, by) ==
    IF doc.exists /\ doc.count.tag = "int"
    THEN Doc(VInt(doc.count.n + by))
    ELSE Doc(VInt(by))

\* A handler that reads a field the document does not have.
OnSnapshotWrongField(doc) == VInt(0)

\* The onSnapshot success callback (lines 120-129): the value given to
\* setViewCount.
OnSnapshot(doc) ==
    IF doc.exists
    THEN (IF Truthy(doc.count) THEN doc.count ELSE VInt(0))
    ELSE VInt(0)

\* ---- React state of one App instance ----
AppState(s) == [db |-> db[s], auth |-> auth[s], userId |-> userId[s],
                isAuthReady |-> isAuthReady[s], viewCount |-> viewCount[s]]

\* the useState initial values (lines 38-42)
InitialState == [db |-> NULL, auth |-> NULL, userId |-> NULL,
                 isAuthReady |-> FALSE, viewCount |-> VInt(0)]

\* useMemo(() => db ? doc(db, ...) : null, [db]) (lines 49-52)
analyticsDocPath(st) == IF st.db # NULL THEN "olhs_current_views" ELSE NULL

\* isLoggedIn (line 183)
isLoggedIn(st) == st.userId # NULL

\* A gate that admits the mock editor only.
isAdminEditorOnly(st) == st.userId = "editor@thecurrent.edu"

\* isAdmin (line 184)
isAdmin(st) == isLoggedIn(st)

\* what a counter on the page shows: the text 'Loading...' or a count
Loading == [tag |-> "loading", n |-> 0]

\* AdminDashboard's Total Page Views (lines 294-296)
DashboardCount(st) == IF st.isAuthReady THEN st.viewCount ELSE Loading

\* the footer's Analytics Count (line 405)
FooterCount(st) == st.viewCount

\* the counters on the page: the footer always, the dashboard while
\* isAdmin (line 365)
CountersShown(st) ==
    {FooterCount(st)} \cup (IF isAdmin(st) THEN {DashboardCount(st)} ELSE {})

\* A dependency array that also names the user.
TrackDepsWithUser(st) == <<st.isAuthReady, analyticsDocPath(st), st.userId>>

\* dependency array of the page-view effect (line 114)
TrackDeps(st) == <<st.isAuthReady, analyticsDocPath(st)>>

\* A guard that forgets the readiness flag.
TrackGuardPathOnly(st) == analyticsDocPath(st) # NULL

\* A guard that also wants a signed-in user.
TrackGuardNeedsUser(st) ==
    st.isAuthReady /\ analyticsDocPath(st) # NULL /\ st.userId # NULL

\* the page-view effect passes its early return (line 100)
TrackGuard(st) == st.isAuthReady /\ analyticsDocPath(st) # NULL

\* An empty dependency array: the effect runs on mount only.
SubscribeDepsEmpty(st) == <<>>

\* A subscription effect that also depends on the user.
SubscribeDepsWithUser(st) == <<st.isAuthReady, analyticsDocPath(st), st.userId>>

\* dependency array of the subscription effect (line 135)
SubscribeDeps(st) == <<st.isAuthReady, analyticsDocPath(st)>>

\* the subscription effect passes its early return (line 118)
SubscribeGuard(st) == st.isAuthReady /\ analyticsDocPath(st) # NULL

B2N(b) == IF b THEN 1 ELSE 0

\* A cleanup that releases nothing.
SnapshotCleanupMissing(open) == open

\* registrations left by the subscription effect's cleanup,
\* return () => unsubscribe() (line 134)
SnapshotCleanup(open) == 0

\* Effects 2 and 3 after a commit that takes App from state prev to state
\* next. An effect whose dependencies changed runs again: its cleanup
\* first (line 134), then its body (lines 99-114, 117-135).
RunEffects(s, prev, next) ==
    LET run2 == TrackDeps(prev) # TrackDeps(next)
        fire2 == run2 /\ TrackGuard(next)
        run3 == SubscribeDeps(prev) # SubscribeDeps(next)
        fire3 == run3 /\ SubscribeGuard(next)
        kept == IF run3 THEN SnapshotCleanup(subOpen[s]) ELSE subOpen[s]
    IN  /\ writes' = [writes EXCEPT ![s] = @ + B2N(fire2)]
        /\ inflight' = [inflight EXCEPT ![s] = @ + B2N(fire2)]
        /\ acked' = acked
        /\ subOpen' = [subOpen EXCEPT ![s] = kept + B2N(fire3)]
        /\ subAlive' = [subAlive EXCEPT ![s] = IF fire3 THEN TRUE
                                               ELSE IF run3 THEN @ /\ kept > 0
                                               ELSE @]
        /\ subNext' = [subNext EXCEPT ![s] = IF fire3 THEN Len(history) ELSE @]
        /\ seen' = seen

\* The configuration check is skipped.
ConfigCheckSkipped(s) == FALSE

\* effect 1 takes its early return (line 56)
ConfigMissing(s) == ~apiKey[s]

\* The body of effect 1 (lines 55-95) run by a mount, from the useState
\* initial values: the first render's effects run on the initial state,
\* then the state set by effect 1 is committed and the effects whose
\* dependencies changed run again.
MountBody(s) ==
    /\ pc' = [pc EXCEPT ![s] = "mounted"]
    /\ mounts' = [mounts EXCEPT ![s] = @ + 1]
    /\ userId' = [userId EXCEPT ![s] = NULL]
    /\ viewCount' = [viewCount EXCEPT ![s] = VInt(0)]
    /\ IF ConfigMissing(s)
       THEN /\ isAuthReady' = [isAuthReady EXCEPT ![s] = TRUE]
            /\ db' = [db EXCEPT ![s] = NULL]
            /\ auth' = [auth EXCEPT ![s] = NULL]
            /\ UNCHANGED <<authListener, attempt>>
       ELSE /\ isAuthReady' = [isAuthReady EXCEPT ![s] = FALSE]
            /\ db' = [db EXCEPT ![s] = "firestore"]
            /\ auth' = [auth EXCEPT ![s] = "firebaseAuth"]
            /\ authListener' = [authListener EXCEPT ![s] = "pending"]
            /\ attempt' = [attempt EXCEPT ![s] = "pending"]
    /\ LET onMount == InitialState
           fire2 == TrackGuard(onMount)
           fire3 == SubscribeGuard(onMount)
           next == AppState(s)'
           run2 == TrackDeps(onMount) # TrackDeps(next)
           run3 == SubscribeDeps(onMount) # SubscribeDeps(next)
           again2 == run2 /\ TrackGuard(next)
           again3 == run3 /\ SubscribeGuard(next)
           kept == IF run3 THEN SnapshotCleanup(B2N(fire3)) ELSE B2N(fire3)
       IN  /\ writes' = [writes EXCEPT ![s] = @ + B2N(fire2) + B2N(again2)]
           /\ inflight' = [inflight EXCEPT ![s] = @ + B2N(fire2) + B2N(again2)]
           /\ subOpen' = [subOpen EXCEPT ![s] = kept + B2N(again3)]
           /\ subAlive' = [subAlive EXCEPT ![s] = fire3 \/ again3]
           /\ subNext' = [subNext EXCEPT ![s] = IF fire3 \/ again3
                                                 THEN Len(history) ELSE @]
           /\ seen' = [seen EXCEPT ![s] = FALSE]
    /\ UNCHANGED <<apiKey, authUser, acked, shared>>

\* The host mounts App: the process starts.
Mount(s) ==
    /\ pc[s] = "init"
    /\ MountBody(s)

\* The host mounts App again after a teardown, in the same process.
Remount(s) ==
    /\ pc[s] = "unmounted"
    /\ mounts[s] < MaxMounts
    /\ MountBody(s)

\* Readiness that follows the user.
ReadyOnlyWithUser(user) == user # NULL

\* the value the callback gives setIsAuthReady (line 76)
ReadyAfterCallback(user) == TRUE

\* The onAuthStateChanged callback (lines 69-77) with the user given, and
\* the commit that follows.
AuthCallback(s, user) ==
    /\ userId' = [userId EXCEPT ![s] = user]
    /\ isAuthReady' = [isAuthReady EXCEPT ![s] = ReadyAfterCallback(user)]
    /\ UNCHANGED <<db, auth, viewCount>>
    /\ RunEffects(s, AppState(s), AppState(s)')

\* The identity provider delivers the current auth state to a newly
\* registered observer.
AuthStateInitial(s) ==
    /\ authListener[s] = "pending"
    /\ authListener' = [authListener EXCEPT ![s] = "active"]
    /\ AuthCallback(s, authUser[s])
    /\ UNCHANGED <<apiKey, pc, mounts, provider, shared>>

\* uid of the user attemptAuth's sign-in produces; signInWithCustomToken
\* and signInAnonymously (lines 82-86) differ in the credential they send,
\* not in what App sees of them
SignedInUser(s) == "uid"

\* attemptAuth's sign-in resolves (lines 80-86); the observer is told of
\* the new user.
AttemptResolve(s) ==
    /\ attempt[s] = "pending"
    /\ attempt' = [attempt EXCEPT ![s] = "resolved"]
    /\ authUser' = [authUser EXCEPT ![s] = SignedInUser(s)]
    /\ IF authListener[s] = "active" /\ authUser[s] # SignedInUser(s)
       THEN AuthCallback(s, SignedInUser(s))
       ELSE UNCHANGED <<react, writer, subscription>>
    /\ UNCHANGED <<apiKey, pc, mounts, authListener, shared>>

\* attemptAuth's sign-in rejects; the catch logs it (lines 87-89).
AttemptReject(s) ==
    /\ attempt[s] = "pending"
    /\ attempt' = [attempt EXCEPT ![s] = "rejected"]
    /\ UNCHANGED <<apiKey, pc, mounts, react, authListener, authUser, writer,
                   subscription, shared>>

\* handleSignOut (lines 169-179), offered by the header while isAdmin
\* (lines 204-212); signOut succeeds and the observer is told.
SignOut(s) ==
    /\ pc[s] = "mounted"
    /\ isAdmin(AppState(s))
    /\ auth[s] # NULL
    /\ authUser' = [authUser EXCEPT ![s] = NULL]
    /\ IF authListener[s] = "active" /\ authUser[s] # NULL
       THEN AuthCallback(s, NULL)
       ELSE UNCHANGED <<react, writer, subscription>>
    /\ UNCHANGED <<apiKey, pc, mounts, authListener, attempt, shared>>

\* An increment by two.
ViewIncrementDouble == 1 + 1

\* the operand of increment(1) (line 106)
ViewIncrement == 1

\* The store applies one in-flight increment write of s (line 106).
WriteApplied(s) ==
    /\ inflight[s] > 0
    /\ inflight' = [inflight EXCEPT ![s] = @ - 1]
    /\ acked' = [acked EXCEPT ![s] = @ + 1]
    /\ history' = Append(history, MergeWrite(store, ViewIncrement))
    /\ UNCHANGED <<apiKey, pc, mounts, react, authListener, provider, writes,
                   subscription, peerWrites>>

\* The write fails; the catch logs it (lines 108-110).
WriteFailed(s) ==
    /\ inflight[s] > 0
    /\ inflight' = [inflight EXCEPT ![s] = @ - 1]
    /\ UNCHANGED <<apiKey, pc, mounts, react, authListener, provider, writes,
                   acked, subscription, shared>>

\* A handler that creates the missing document with count 0.
OnMissingDocumentInit(h) == Append(h, Doc(VInt(0)))

\* the document's states after the handler met a missing document: it
\* writes nothing, the setDoc of line 128 being commented out
\* (lines 124-129)
OnMissingDocument(h) == h

\* The store pushes the next snapshot to s's subscription (lines 120-129).
SnapshotDelivered(s) ==
    /\ subOpen[s] > 0
    /\ subAlive[s]
    /\ subNext[s] <= Len(history)
    /\ viewCount' = [viewCount EXCEPT ![s] = OnSnapshot(history[subNext[s]])]
    /\ subNext' = [subNext EXCEPT ![s] = @ + 1]
    /\ seen' = [seen EXCEPT ![s] = TRUE]
    /\ history' = IF history[subNext[s]].exists
                  THEN history ELSE OnMissingDocument(history)
    /\ UNCHANGED <<apiKey, pc, mounts, db, auth, userId, isAuthReady,
                   authListener, provider, writer, subOpen, subAlive,
                   peerWrites>>

\* An error callback that falls back to zero.
OnSnapshotErrorReset(count) == VInt(0)

\* viewCount after the onSnapshot error callback, which only logs
\* (lines 130-132)
OnSnapshotError(count) == count

\* The subscription fails: the store ends it and calls the error callback.
SnapshotError(s) ==
    /\ subOpen[s] > 0
    /\ subAlive[s]
    /\ subAlive' = [subAlive EXCEPT ![s] = FALSE]
    /\ viewCount' = [viewCount EXCEPT ![s] = OnSnapshotError(@)]
    /\ UNCHANGED <<apiKey, pc, mounts, db, auth, userId, isAuthReady,
                   authListener, provider, writer, subOpen, subNext, seen,
                   shared>>

\* App is torn down: the cleanups of effect 1 (line 94) and effect 3
\* (line 134) run.
Unmount(s) ==
    /\ pc[s] = "mounted"
    /\ pc' = [pc EXCEPT ![s] = "unmounted"]
    /\ authListener' = [authListener EXCEPT ![s] = "none"]
    /\ subOpen' = [subOpen EXCEPT ![s] = SnapshotCleanup(@)]
    /\ subAlive' = [subAlive EXCEPT ![s] = @ /\ SnapshotCleanup(subOpen[s]) > 0]
    /\ UNCHANGED <<apiKey, mounts, react, provider, writer, subNext, seen,
                   shared>>

\* Another viewing session's increment write (line 106) is applied by the
\* store.
PeerWriteApplied ==
    /\ peerWrites < MaxPeerWrites
    /\ peerWrites' = peerWrites + 1
    /\ history' = Append(history, MergeWrite(store, ViewIncrement))
    /\ UNCHANGED <<apiKey, pc, mounts, react, authListener, provider, writer,
                   subscription>>

Init ==
    /\ apiKey \in [Sessions -> BOOLEAN]
    /\ pc = [s \in Sessions |-> "init"]
    /\ mounts = [s \in Sessions |-> 0]
    /\ db = [s \in Sessions |-> NULL]
    /\ auth = [s \in Sessions |-> NULL]
    /\ userId = [s \in Sessions |-> NULL]
    /\ isAuthReady = [s \in Sessions |-> FALSE]
    /\ viewCount = [s \in Sessions |-> VInt(0)]
    /\ authListener = [s \in Sessions |-> "none"]
    /\ authUser = [s \in Sessions |-> NULL]
    /\ attempt = [s \in Sessions |-> "none"]
    /\ writes = [s \in Sessions |-> 0]
    /\ inflight = [s \in Sessions |-> 0]
    /\ acked = [s \in Sessions |-> 0]
    /\ subOpen = [s \in Sessions |-> 0]
    /\ subAlive = [s \in Sessions |-> FALSE]
    /\ subNext = [s \in Sessions |-> 1]
    /\ seen = [s \in Sessions |-> FALSE]
    /\ peerWrites = 0
    /\ \E d \in InitialDocs : history = <<d>>

SessionNext(s) ==
        \/ Mount(s)
        \/ AuthStateInitial(s)
        \/ AttemptResolve(s)
        \/ AttemptReject(s)
        \/ SignOut(s)
        \/ WriteApplied(s)
        \/ WriteFailed(s)
        \/ SnapshotDelivered(s)
        \/ SnapshotError(s)
        \/ Unmount(s)

Next ==
    \/ \E s \in Sessions : SessionNext(s)
    \/ PeerWriteApplied

Spec == Init /\ [][Next]_vars

\* The same, in a host that mounts App again after tearing it down.
NextRemount ==
    \/ Next
    \/ \E s \in Sessions : Remount(s)

SpecRemount == Init /\ [][NextRemount]_vars

\* The identity provider does call a newly registered observer.
Fairness == \A s \in Sessions : WF_vars(AuthStateInitial(s))

SpecFair == Spec /\ Fairness

\* The store does push every snapshot to a live subscription.
FairnessPush == \A s \in Sessions : WF_vars(SnapshotDelivered(s))

SpecFairPush == Spec /\ FairnessPush

\* ---- what the claims speak of ----
\* both gating conditions of the increment and of the subscription
BothReady(s) == isAuthReady[s] /\ analyticsDocPath(AppState(s)) # NULL

\* the step pushes one snapshot to s's subscription
Delivery(s) ==
    /\ subOpen[s] > 0
    /\ subOpen'[s] = subOpen[s]
    /\ subNext'[s] = subNext[s] + 1

RECURSIVE SumUpTo(_, _)
SumUpTo(f, n) == IF n = 0 THEN 0 ELSE f[n] + SumUpTo(f, n - 1)

\* increment writes the store has applied, of every session
AppliedWrites == SumUpTo(acked, NumSessions) + peerWrites

\* the count a well-formed document holds, a missing document counting as 0
CountOf(doc) == IF doc.exists THEN doc.count.n ELSE 0
WellFormed(doc) == ~doc.exists \/ doc.count.tag = "int"

\* C1: whatever readiness and identity events occur (the observer called
\* any number of times, sign-in, sign-out, the store handle set), a process
\* issues at most one increment write, and has issued exactly one once
\* isAuthReady and analyticsDocPath have both held.
C1_IncrementExactlyOnce ==
    \A s \in Sessions :
        /\ writes[s] <= 1
        /\ BothReady(s) => writes[s] = 1

\* C1 witness: the write was issued once and the observer has since been
\* called for a sign-in and for a sign-out.
C1_Witness ==
    \E s \in Sessions :
        /\ writes[s] = 1
        /\ attempt[s] = "resolved"
        /\ authListener[s] = "active"
        /\ userId[s] = NULL

\* C2: isAuthReady is never true while attemptAuth's sign-in is pending.
C2_ReadyOnlyAfterAttemptSettled ==
    \A s \in Sessions : isAuthReady[s] => attempt[s] # "pending"

\* C3: an increment write has been issued, or a subscription opened, only
\* in states where isAuthReady is true and analyticsDocPath is available.
C3_GatedOnBothConditions ==
    \A s \in Sessions :
        (writes[s] > 0 \/ subOpen[s] > 0) => BothReady(s)

\* C3 witness: both the write and the subscription have happened.
C3_Witness ==
    \E s \in Sessions : writes[s] = 1 /\ subOpen[s] = 1 /\ pc[s] = "mounted"

\* C4: the stored count is the initial count (0 for a missing document)
\* plus the number of increment writes applied, in whatever order the
\* store applied them; so it is the initial count plus N once N sessions
\* have each had their one write applied.
C4_NoLostUpdates ==
    WellFormed(history[1]) =>
        store = (IF ~history[1].exists /\ AppliedWrites = 0
                 THEN NoDoc
                 ELSE Doc(VInt(CountOf(history[1]) + AppliedWrites)))

\* C4 witness: on a fresh namespace every session's write and every peer's
\* write has been applied.
C4_Witness ==
    /\ history[1] = NoDoc
    /\ \A s \in Sessions : writes[s] = 1 /\ acked[s] = 1
    /\ peerWrites = MaxPeerWrites
    /\ store = Doc(VInt(NumSessions + MaxPeerWrites))

\* what C5 says viewCount is after a snapshot of doc
C5_Expected(doc) ==
    IF doc.exists /\ doc.count.tag = "int" THEN doc.count ELSE VInt(0)

\* C5: every snapshot pushed sets viewCount to 0 for a missing document,
\* to N for a document with count = N, and to 0 for a document whose count
\* is absent or malformed.
C5_MirrorFollowsSnapshot ==
    [][\A s \in Sessions :
          Delivery(s) => viewCount'[s] = C5_Expected(history[subNext[s]])]_vars

\* C6: a process without the access key has isAuthReady true once mounted,
\* and never issues a write, opens a subscription, registers an observer or
\* attempts a sign-in; its viewCount stays 0.
C6_ConfigMissingIdle ==
    \A s \in Sessions :
        (~apiKey[s] /\ pc[s] # "init") =>
            /\ isAuthReady[s]
            /\ writes[s] = 0
            /\ subOpen[s] = 0
            /\ attempt[s] = "none"
            /\ authListener[s] = "none"
            /\ db[s] = NULL
            /\ viewCount[s] = VInt(0)

\* C6 witness: such a process is mounted while the stored count moves on.
C6_Witness ==
    \E s \in Sessions :
        /\ ~apiKey[s]
        /\ pc[s] = "mounted"
        /\ Len(history) > 1

\* C7: viewCount changes only in a step that pushes a snapshot; the end of
\* the process's own write, applied or failed, changes neither viewCount
\* nor the number of writes issued, and a subscription error leaves
\* viewCount as it was.
C7_MirrorOnlyViaSnapshot ==
    [][\A s \in Sessions :
          /\ viewCount'[s] # viewCount[s] => Delivery(s)
          /\ inflight'[s] < inflight[s] =>
                viewCount'[s] = viewCount[s] /\ writes'[s] = writes[s]
          /\ (subAlive[s] /\ ~subAlive'[s]) => viewCount'[s] = viewCount[s]]_vars

\* C7 witness: a non-zero count was mirrored, the process's write has ended
\* and the subscription has failed.
C7_Witness ==
    \E s \in Sessions :
        /\ viewCount[s] # VInt(0)
        /\ writes[s] = 1 /\ inflight[s] = 0
        /\ subOpen[s] = 1 /\ ~subAlive[s]

\* C8: a session never holds more than one subscription, and holds exactly
\* one while it is mounted with both conditions true, whatever the
\* observer has been told since.
C8_OneStandingSubscription ==
    \A s \in Sessions :
        /\ subOpen[s] <= 1
        /\ (pc[s] = "mounted" /\ BothReady(s)) => subOpen[s] = 1

\* C8 witness: the subscription stands after a sign-in and a sign-out.
C8_Witness ==
    \E s \in Sessions :
        /\ subOpen[s] = 1
        /\ attempt[s] = "resolved"
        /\ authListener[s] = "active"
        /\ authUser[s] = NULL
        /\ userId[s] = NULL

\* C9: tearing App down and setting it up again, any number of times in
\* one process, never brings the process to more than one increment write.
C9_OneWriteAcrossRemounts ==
    \A s \in Sessions : mounts[s] >= 1 => writes[s] <= 1

\* C10: once the sign-in has failed, userId is absent and isAdmin false, a
\* ready process has issued its increment write, and a mounted process
\* does become ready.
C10_FailedIdentityStillCounts ==
    /\ [](\A s \in Sessions :
            attempt[s] = "rejected" =>
                /\ userId[s] = NULL
                /\ ~isAdmin(AppState(s))
                /\ isAuthReady[s] => writes[s] = 1)
    /\ \A s \in Sessions :
            (attempt[s] = "rejected" /\ pc[s] = "mounted")
                ~> (isAuthReady[s] \/ pc[s] = "unmounted")

\* C10 witness: the sign-in failed, the process is ready without a user
\* and has issued its write.
C10_Witness ==
    \E s \in Sessions :
        /\ attempt[s] = "rejected"
        /\ isAuthReady[s]
        /\ userId[s] = NULL
        /\ writes[s] = 1

\* s's subscription is registered and still receives pushes
SubLive(s) == subOpen[s] > 0 /\ subAlive[s]

\* C11: pushes being delivered, there comes a point from which every
\* session with a live subscription has been pushed every state of the
\* document and, increments having changed the stored count, mirrors
\* the stored count.
C11_MirrorConverges ==
    \A s \in Sessions :
        <>[]((SubLive(s) /\ Len(history) > 1) =>
                (subNext[s] > Len(history) /\ viewCount[s] = store.count))

\* C11 witness: the document held 1, an increment made it 2, and a
\* subscribed session mirrors 2.
C11_Witness ==
    \E s \in Sessions :
        /\ SubLive(s)
        /\ history[1] = Doc(VInt(1))
        /\ store = Doc(VInt(2))
        /\ viewCount[s] = VInt(2)

\* C12: when a pushed snapshot is the document after an increment, and
\* viewCount is the number mirrored from the document before it, the push
\* raises viewCount by exactly 1.
C12_IncrementSeenAsPlusOne ==
    [][\A s \in Sessions :
          (/\ Delivery(s)
           /\ subNext[s] > 1
           /\ seen[s]
           /\ viewCount[s].tag = "int"
           /\ viewCount[s] = OnSnapshot(history[subNext[s] - 1]))
          => viewCount'[s] = VInt(viewCount[s].n + 1)]_vars

\* C12 witness: a session mirrored 1 and then, after its own increment
\* (issued in the step that opened its subscription), 2.
C12_Witness ==
    \E s \in Sessions :
        /\ history[1] = Doc(VInt(1))
        /\ acked[s] = 1 /\ peerWrites = 0
        /\ seen[s]
        /\ subNext[s] = 3
        /\ viewCount[s] = VInt(2)

\* C13: while App is mounted, every counter on the page shows 'Loading...'
\* until the first snapshot has arrived, and from then on the integer held
\* in viewCount.
C13_LoadingUntilFirstSnapshot ==
    \A s \in Sessions :
        pc[s] = "mounted" =>
            \A shown \in CountersShown(AppState(s)) :
                IF seen[s]
                THEN shown = viewCount[s] /\ shown.tag = "int"
                ELSE shown = Loading

\* C14: isAdmin is exactly "userId is present"; with the observer in
\* place that is "the provider has a user", anonymous or not, and before
\* the observer's first call isAdmin is false.
C14_ElevatedIffIdentity ==
    \A s \in Sessions :
        /\ isAdmin(AppState(s)) <=> userId[s] # NULL
        /\ pc[s] = "mounted" =>
              IF authListener[s] = "active"
              THEN isAdmin(AppState(s)) <=> authUser[s] # NULL
              ELSE ~isAdmin(AppState(s))

\* C14 witness: the anonymous sign-in resolved and the gate is open.
C14_Witness ==
    \E s \in Sessions :
        /\ pc[s] = "mounted"
        /\ authListener[s] = "active"
        /\ authUser[s] = "uid"
        /\ isAdmin(AppState(s))

\* C15: a torn-down App holds no subscription and no observer, and no
\* later step changes its viewCount, userId or isAuthReady.
C15_TeardownReleasesListeners ==
    [][\A s \in Sessions :
          pc'[s] = "unmounted" =>
              /\ subOpen'[s] = 0
              /\ authListener'[s] = "none"
              /\ pc[s] = "unmounted" =>
                    /\ viewCount'[s] = viewCount[s]
                    /\ userId'[s] = userId[s]
                    /\ isAuthReady'[s] = isAuthReady[s]]_vars

\* C15 witness: after the teardown the sign-in resolved and the document
\* changed, and neither reached the App state.
C15_Witness ==
    \E s \in Sessions :
        /\ pc[s] = "unmounted"
        /\ isAuthReady[s]
        /\ userId[s] = NULL
        /\ authUser[s] = "uid"
        /\ subNext[s] <= Len(history)
        /\ viewCount[s] # store.count

\* C16: isAuthReady is false before the mount, never goes from true to
\* false, and a mounted App does become ready.
C16_ReadinessMonotonic ==
    /\ [](\A s \in Sessions : pc[s] = "init" => ~isAuthReady[s])
    /\ [][\A s \in Sessions : isAuthReady[s] => isAuthReady'[s]]_vars
    /\ \A s \in Sessions :
          (pc[s] = "mounted") ~> (isAuthReady[s] \/ pc[s] = "unmounted")

\* C16 witness: ready after a sign-out, a failed write and a subscription
\* error.
C16_Witness ==
    \E s \in Sessions :
        /\ isAuthReady[s]
        /\ attempt[s] = "resolved"
        /\ authUser[s] = NULL
        /\ writes[s] = 1 /\ inflight[s] = 0 /\ acked[s] = 0
        /\ subOpen[s] = 1 /\ ~subAlive[s]

\* the number a document's count stands for: 0 when the document or the
\* field is missing
NumberOf(doc) == IF doc.count.tag = "int" THEN doc.count.n ELSE 0
Numeric(doc) == doc.count.tag \in {"int", "undefined"}

\* C17: every change of the document appends one state, whose count is
\* the count before plus 1 (a missing document or field counting as 0);
\* the count never decreases; a step that pushes a snapshot leaves the
\* document alone.
C17_OnlyAtomicIncrement ==
    [][/\ history' # history =>
            /\ Len(history') = Len(history) + 1
            /\ SubSeq(history', 1, Len(history)) = history
            /\ store'.exists /\ store'.count.tag = "int"
            /\ Numeric(store) => store'.count.n = NumberOf(store) + 1
            /\ store'.count.n >= NumberOf(store)
       /\ \A s \in Sessions : Delivery(s) => history' = history]_vars

\* C17 witness: a session was pushed the snapshot of the missing document,
\* and the document was then created by an increment.
C17_Witness ==
    \E s \in Sessions :
        /\ history[1] = NoDoc
        /\ seen[s]
        /\ subNext[s] = 2
        /\ store = Doc(VInt(1))

\* C18: with a well-formed document, viewCount never exceeds the stored
\* count and never decreases.
C18_MirrorBelowStoreAndMonotone ==
    [][WellFormed(history[1]) =>
          \A s \in Sessions :
              /\ viewCount'[s].tag = "int"
              /\ viewCount'[s].n <= CountOf(store')
              /\ viewCount'[s].n >= viewCount[s].n]_vars

\* C18 witness: a session mirrors 1 while the store already holds 2.
C18_Witness ==
    \E s \in Sessions :
        /\ WellFormed(history[1])
        /\ viewCount[s] = VInt(1)
        /\ store = Doc(VInt(2))

\* C19: a sign-out of a ready App sets userId to null, and leaves
\* isAuthReady true and db, viewCount, the subscription and the writes
\* issued as they were.
C19_SignOutFrame ==
    [][\A s \in Sessions :
          (isAuthReady[s] /\ authUser[s] # NULL /\ authUser'[s] = NULL) =>
              /\ userId'[s] = NULL
              /\ ~isAdmin(AppState(s))'
              /\ isAuthReady'[s]
              /\ db'[s] = db[s]
              /\ viewCount'[s] = viewCount[s]
              /\ subOpen'[s] = subOpen[s]
              /\ subAlive'[s] = subAlive[s]
              /\ subNext'[s] = subNext[s]
              /\ writes'[s] = writes[s]
              /\ inflight'[s] = inflight[s]]_vars

\* C19 witness: signed out, with the subscription live and a count
\* mirrored.
C19_Witness ==
    \E s \in Sessions :
        /\ attempt[s] = "resolved"
        /\ authListener[s] = "active"
        /\ authUser[s] = NULL
        /\ userId[s] = NULL
        /\ SubLive(s)
        /\ subNext[s] > Len(history)
        /\ viewCount[s] # VInt(0)

====
